---- MODULE Spec2Model ----
\* The HTTP facade of the DNS proxy: request decoding (newDoHOrHttpReq,
\* parseHTTPArgs), client identification (remoteAddrWithRemoteHost,
\* realIPFromHdrs), Basic Auth (checkBasicAuth) and response encoding
\* (respondHTTPS, formatHTTPDNSMsg), as the steps of Proxy.ServeHTTP.
\*
\* Strings the code scans byte by byte are sequences of tokens: a domain name
\* is a sequence over NameChars, an address string is a sequence such as
\* <<"9.9.9.9", ":", "53">>, a header value a sequence such as
\* <<"4.4.4.4", ",", " ", "5.5.5.5">>.
EXTENDS Integers, Sequences, FiniteSets, TLC

\* ---------------------------------------------------------------- bounds
MaxNameLen == 4
MaxAnswers == 1

\* ------------------------------------------------------- string helpers
RECURSIVE TrimLeft(_, _)
TrimLeft(s, cutset) ==
    IF s # <<>> /\ Head(s) \in cutset THEN TrimLeft(Tail(s), cutset) ELSE s

RECURSIVE TrimRight(_, _)
TrimRight(s, cutset) ==
    IF s # <<>> /\ s[Len(s)] \in cutset
    THEN TrimRight(SubSeq(s, 1, Len(s) - 1), cutset)
    ELSE s

Trim(s, cutset) == TrimRight(TrimLeft(s, cutset), cutset)

TrimSpace(s) == Trim(s, {" "})

HasSuffix(s, c) == s # <<>> /\ s[Len(s)] = c

\* strings.IndexByte, 0-based, -1 when c does not occur.
IndexByte(s, c) ==
    IF \E i \in 1..Len(s) : s[i] = c
    THEN (CHOOSE i \in 1..Len(s) : s[i] = c /\ \A j \in 1..(i - 1) : s[j] # c) - 1
    ELSE -1

\* A decoder that forgets to fold the case of its argument.
ToUpper_Identity(s) == s

\* strings.ToUpper / strings.ToLower on the strings the model feeds them.
ToUpper(s) ==
    CASE s = "a" -> "A"
      [] s = "aaaa" -> "AAAA"
      [] s = "Mx" -> "MX"
      [] s = "caa" -> "CAA"
      [] s = "bogus" -> "BOGUS"
      [] OTHER -> s

ToLower(s) ==
    CASE s = "HTTPS" -> "https"
      [] s = "Https" -> "https"
      [] s = "HTTP" -> "http"
      [] OTHER -> s

\* ------------------------------------------------------------ constants
HttpDnsUrlPathPrefix == "/resolve"
HttpDnsUrlPathPrefixBak == "/dns-query"

HttpDnsAnswerTypeDoh == 0
HttpDnsAnswerTypeJsonAnswer == 1

ClassINET == 1

StatusOK == 200
StatusBadRequest == 400
StatusUnauthorized == 401
StatusMethodNotAllowed == 405
StatusUnsupportedMediaType == 415
StatusInternalServerError == 500

\* dns.TypeA ... dns.TypeCAA as the table of parseHTTPArgs names them.
HTTPDNSSupportType ==
    [k \in {"", "A", "AAAA", "NS", "PTR", "TXT", "SOA", "SPF", "SRV", "MX",
            "NAPTR", "CNAME", "DNAME", "CAA"} |->
        CASE k = "" -> 1
          [] k = "A" -> 1
          [] k = "AAAA" -> 28
          [] k = "NS" -> 2
          [] k = "PTR" -> 12
          [] k = "TXT" -> 16
          [] k = "SOA" -> 6
          [] k = "SPF" -> 99
          [] k = "SRV" -> 33
          [] k = "MX" -> 15
          [] k = "NAPTR" -> 35
          [] k = "CNAME" -> 5
          [] k = "DNAME" -> 39
          [] k = "CAA" -> 257]

\* dns.TypeToString on the types the model uses (ANY is 255); a type the
\* library has no name for maps to the empty string.
TypeToString(t) ==
    CASE t = 1 -> "A"
      [] t = 28 -> "AAAA"
      [] t = 2 -> "NS"
      [] t = 12 -> "PTR"
      [] t = 16 -> "TXT"
      [] t = 6 -> "SOA"
      [] t = 99 -> "SPF"
      [] t = 33 -> "SRV"
      [] t = 15 -> "MX"
      [] t = 35 -> "NAPTR"
      [] t = 5 -> "CNAME"
      [] t = 39 -> "DNAME"
      [] t = 257 -> "CAA"
      [] t = 255 -> "ANY"
      [] OTHER -> ""

\* ------------------------------------------------- DNS messages and wire
NameChars == {"a", ".", " "}

\* Bytes the library escapes with a backslash when it prints a label.
LabelSpecial == {" ", "."}

NoMsg == [t |-> "nil"]

\* The zero dns.MsgHdr, with the fields the facade reads.
MsgHdr ==
    [Id |-> 0, RecursionDesired |-> FALSE, Truncated |-> FALSE,
     RecursionAvailable |-> FALSE, AuthenticatedData |-> FALSE,
     CheckingDisabled |-> FALSE, Rcode |-> 0]

EmptyBuf == [t |-> "empty"]
JunkBuf == [t |-> "junk"]

IsFqdn(s) == HasSuffix(s, ".")

\* packDomainName accepts the root, and any fully qualified name without a
\* leading dot and without two dots in a row.
PackDomainNameOK(s) ==
    /\ IsFqdn(s)
    /\ (Len(s) > 1 => s[1] # ".")
    /\ \A i \in 1..(Len(s) - 1) : ~(s[i] = "." /\ s[i + 1] = ".")

RECURSIVE SplitLabels(_)
SplitLabels(s) ==
    IF s = <<>> \/ s = <<".">> THEN <<>>
    ELSE LET i == IndexByte(s, ".") + 1
         IN  <<SubSeq(s, 1, i - 1)>> \o SplitLabels(SubSeq(s, i + 1, Len(s)))

RECURSIVE EscapeLabel(_)
EscapeLabel(l) ==
    IF l = <<>> THEN <<>>
    ELSE (IF Head(l) \in LabelSpecial THEN <<"\\", Head(l)>> ELSE <<Head(l)>>)
         \o EscapeLabel(Tail(l))

RECURSIVE JoinLabels(_)
JoinLabels(ls) ==
    IF ls = <<>> THEN <<>>
    ELSE EscapeLabel(Head(ls)) \o <<".">> \o JoinLabels(Tail(ls))

UnpackDomainName(ls) == IF ls = <<>> THEN <<".">> ELSE JoinLabels(ls)

PackQuestion(q) ==
    [labels |-> SplitLabels(q.Name), Qtype |-> q.Qtype, Qclass |-> q.Qclass]

UnpackQuestion(wq) ==
    [Name |-> UnpackDomainName(wq.labels), Qtype |-> wq.Qtype, Qclass |-> wq.Qclass]

PackRR(rr) ==
    [labels |-> SplitLabels(rr.Name), Rrtype |-> rr.Rrtype, TTL |-> rr.TTL,
     Data |-> rr.Data]

UnpackRR(wr) ==
    [Name |-> UnpackDomainName(wr.labels), Rrtype |-> wr.Rrtype, TTL |-> wr.TTL,
     Data |-> wr.Data]

\* dns.Msg.Pack: an extended rcode without an OPT record, or a name that
\* does not pack, is an error.
Pack(m) ==
    IF \/ m.Hdr.Rcode > 15
       \/ \E i \in 1..Len(m.Question) : ~PackDomainNameOK(m.Question[i].Name)
       \/ \E i \in 1..Len(m.Answer) : ~PackDomainNameOK(m.Answer[i].Name)
    THEN [err |-> TRUE, buf |-> EmptyBuf]
    ELSE [err |-> FALSE,
          buf |-> [t |-> "wire", Hdr |-> m.Hdr,
                   qd |-> [i \in 1..Len(m.Question) |-> PackQuestion(m.Question[i])],
                   an |-> [i \in 1..Len(m.Answer) |-> PackRR(m.Answer[i])]]]

\* dns.Msg.Unpack: only a packed message unpacks.
Unpack(buf) ==
    IF buf.t # "wire" THEN [err |-> TRUE, msg |-> NoMsg]
    ELSE [err |-> FALSE,
          msg |-> [t |-> "msg", Hdr |-> buf.Hdr,
                   Question |-> [i \in 1..Len(buf.qd) |-> UnpackQuestion(buf.qd[i])],
                   Answer |-> [i \in 1..Len(buf.an) |-> UnpackRR(buf.an[i])]]]

\* --------------------------------------------------------- JSON decoding
convertFQDN(domain) == TrimSpace(Trim(domain, {"."})) \o <<".">>

parseHTTPArgs(args, id) ==
    LET domainName == convertFQDN(args.name)
        qTypeString == ToUpper(args.type)
        remoteHostStr == args.ip
    IN  IF qTypeString \notin DOMAIN HTTPDNSSupportType
        THEN [buf |-> EmptyBuf, remoteHostStr |-> <<>>, err |-> TRUE]
        ELSE LET fqdn == IF ~HasSuffix(domainName, ".")
                         THEN domainName \o <<".">> ELSE domainName
                 msg == [t |-> "msg",
                         Hdr |-> [MsgHdr EXCEPT !.Id = id, !.RecursionDesired = TRUE],
                         Question |-> <<[Name |-> fqdn,
                                         Qtype |-> HTTPDNSSupportType[qTypeString],
                                         Qclass |-> ClassINET]>>,
                         Answer |-> <<>>]
                 packed == Pack(msg)
             IN  [buf |-> packed.buf, remoteHostStr |-> remoteHostStr,
                  err |-> packed.err]

\* base64.RawURLEncoding.DecodeString: a parameter is the encoding (enc) of
\* some bytes (buf); only the unpadded URL-safe encoding decodes.
RawURLDecodeString(p) ==
    IF p.enc = "rawurl" THEN [buf |-> p.buf, err |-> FALSE]
    ELSE [buf |-> EmptyBuf, err |-> TRUE]

\* ------------------------------------------------------- Request Decoder
DecodeResult(req, statusCode, answerType, remoteHostStr, bodyRead, bodyClosed) ==
    [req |-> req, statusCode |-> statusCode, answerType |-> answerType,
     remoteHostStr |-> remoteHostStr, bodyRead |-> bodyRead,
     bodyClosed |-> bodyClosed]

\* Lines 483-490: the unpack that ends every successful branch.  closed says
\* whether the deferred close of the body is pending when it runs.
UnpackTail(buf, answerType, remoteHostStr, bodyRead, closed) ==
    LET u == Unpack(buf)
    IN  IF u.err
        THEN DecodeResult(NoMsg, StatusBadRequest, answerType, remoteHostStr,
                          bodyRead, closed)
        ELSE DecodeResult(u.msg, StatusOK, answerType, remoteHostStr,
                          bodyRead, closed)

\* A POST case that reads the body whatever the content type says.
DecodePost_AnyContentType(r) ==
    IF r.body.err
    THEN DecodeResult(NoMsg, StatusBadRequest, HttpDnsAnswerTypeDoh,
                      <<>>, TRUE, FALSE)
    ELSE UnpackTail(r.body.buf, HttpDnsAnswerTypeDoh, <<>>, TRUE, TRUE)

\* The POST case, lines 460-476, with the unpack it falls through to.
DecodePost(r) ==
    IF r.contentType # "application/dns-message"
    THEN DecodeResult(NoMsg, StatusUnsupportedMediaType,
                      HttpDnsAnswerTypeDoh, <<>>, FALSE, FALSE)
    ELSE IF r.body.err
    THEN DecodeResult(NoMsg, StatusBadRequest, HttpDnsAnswerTypeDoh,
                      <<>>, TRUE, FALSE)
    ELSE UnpackTail(r.body.buf, HttpDnsAnswerTypeDoh, <<>>, TRUE, TRUE)

newDoHOrHttpReq(r, id) ==
    LET path == r.path
    IN  CASE r.method = "GET" ->
                LET json == path = HttpDnsUrlPathPrefix \/ path = HttpDnsUrlPathPrefixBak
                    answerType == IF json THEN HttpDnsAnswerTypeJsonAnswer
                                  ELSE HttpDnsAnswerTypeDoh
                    parsed == IF json THEN parseHTTPArgs(r.args, id)
                              ELSE LET dec == RawURLDecodeString(r.args.dns)
                                   IN  [buf |-> dec.buf, remoteHostStr |-> <<>>,
                                        err |-> dec.err]
                IN  IF parsed.buf.t = "empty" \/ parsed.err
                    THEN DecodeResult(NoMsg, StatusBadRequest, answerType,
                                      parsed.remoteHostStr, FALSE, FALSE)
                    ELSE UnpackTail(parsed.buf, answerType, parsed.remoteHostStr,
                                    FALSE, FALSE)
          [] r.method = "POST" -> DecodePost(r)
          [] OTHER ->
                DecodeResult(NoMsg, StatusMethodNotAllowed, HttpDnsAnswerTypeDoh,
                             <<>>, FALSE, FALSE)

\* ------------------------------------------------ Client-Identity Resolver
IPLiterals == {"10.0.0.1", "192.0.2.7", "8.8.8.8", "9.9.9.9", "8.8.4.4",
               "1.1.1.1", "4.4.4.4", "5.5.5.5"}

PortLiterals == {"53", "4711"}

PortOf(p) == IF p = "53" THEN 53 ELSE 4711

\* The zero netip.AddrPort, for which IsValid reports false.
ZeroAddrPort == [addr |-> "", port |-> 0]

IsValid(ap) == ap.addr # ""

AddrPortFrom(ip, port) == [addr |-> ip, port |-> port]

\* netip.ParseAddr: a bare address literal and nothing else.
ParseAddr(s) ==
    IF Len(s) = 1 /\ s[1] \in IPLiterals
    THEN [addr |-> s[1], err |-> FALSE]
    ELSE [addr |-> "", err |-> TRUE]

\* netip.ParseAddrPort: address, colon, port.
ParseAddrPort(s) ==
    IF Len(s) = 3 /\ s[1] \in IPLiterals /\ s[2] = ":" /\ s[3] \in PortLiterals
    THEN [ap |-> AddrPortFrom(s[1], PortOf(s[3])), err |-> FALSE]
    ELSE [ap |-> ZeroAddrPort, err |-> TRUE]

realIPFromHdrs(r) ==
    LET cf == ParseAddr(TrimSpace(r.hdr.CFConnectingIP))
        tci == ParseAddr(TrimSpace(r.hdr.TrueClientIP))
        xri == ParseAddr(TrimSpace(r.hdr.XRealIP))
        xff == r.hdr.XForwardedFor
        firstComma == IndexByte(xff, ",")
        cut == IF firstComma > 0 THEN SubSeq(xff, 1, firstComma) ELSE xff
    IN  IF ~cf.err THEN cf
        ELSE IF ~tci.err THEN tci
        ELSE IF ~xri.err THEN xri
        ELSE ParseAddr(TrimSpace(cut))

remoteAddrWithRemoteHost(r, remoteHostStr) ==
    LET parsed == ParseAddrPort(r.RemoteAddr)
        newHost == ParseAddrPort(remoteHostStr)
        host == IF remoteHostStr # <<>> /\ ~newHost.err THEN newHost.ap
                ELSE parsed.ap
        realIP == realIPFromHdrs(r)
    IN  IF parsed.err
        THEN [addr |-> ZeroAddrPort, prx |-> ZeroAddrPort, err |-> TRUE]
        ELSE IF realIP.err
        THEN [addr |-> host, prx |-> ZeroAddrPort, err |-> FALSE]
        ELSE [addr |-> AddrPortFrom(realIP.addr, 0), prx |-> host, err |-> FALSE]

\* ------------------------------------------------------------ Access Guard
NoUserinfo == [set |-> FALSE, user |-> "", pass |-> ""]

UserPassword(user, pass) == [set |-> TRUE, user |-> user, pass |-> pass]

\* http.Request.BasicAuth: only a well-formed Basic header yields a pair.
BasicAuth(r) ==
    IF r.auth.scheme = "Basic"
    THEN [user |-> r.auth.user, pass |-> r.auth.pass, ok |-> TRUE]
    ELSE [user |-> "", pass |-> "", ok |-> FALSE]

\* A guard that compares the username alone.
matchesUserinfo_UserOnly(userinfo, user, pass) == user = userinfo.user

matchesUserinfo(userinfo, user, pass) ==
    user = userinfo.user /\ pass = userinfo.pass

\* --------------------------------------------------------- HTTP response
NoBody == [kind |-> "none"]

NewResponseWriter ==
    [status |-> 0,
     hdr |-> [ContentType |-> "", WWWAuthenticate |-> "", Server |-> ""],
     body |-> NoBody]

\* http.Error: a plain-text body under the given status; headers set before
\* it stay.
HttpError(w, text, code) ==
    [w EXCEPT !.status = code,
              !.hdr.ContentType = "text/plain; charset=utf-8",
              !.body = [kind |-> "text", text |-> text]]

StatusText(code) ==
    CASE code = StatusBadRequest -> "Bad Request"
      [] code = StatusMethodNotAllowed -> "Method Not Allowed"
      [] code = StatusUnsupportedMediaType -> "Unsupported Media Type"
      [] code = StatusInternalServerError -> "Internal Server Error"
      [] OTHER -> ""

\* http.ResponseWriter.Write with no status written yet answers 200.
Write(w, body) ==
    [w EXCEPT !.status = IF w.status = 0 THEN StatusOK ELSE w.status,
              !.body = body]

\* ------------------------------------------------------- Response Encoder
\* A JSON array field: a nil slice marshals as null, a made one as [...].
NullArray == [null |-> TRUE, items |-> <<>>]
Array(items) == [null |-> FALSE, items |-> items]

\* json.Marshal(&DnsResponse{}).
ZeroDnsResponse ==
    [TC |-> FALSE, RD |-> FALSE, RA |-> FALSE, AD |-> FALSE, CD |-> FALSE,
     Status |-> 0, Question |-> NullArray, Answer |-> NullArray]

\* rrsToArray and the filter loop of formatHTTPDNSMsg: the records whose
\* printed type equals the printed question type, in order.
RECURSIVE MatchingRRs(_, _)
MatchingRRs(rrs, qType) ==
    IF rrs = <<>> THEN <<>>
    ELSE LET rr == Head(rrs)
             rest == MatchingRRs(Tail(rrs), qType)
         IN  IF qType = ToUpper(TypeToString(rr.Rrtype))
             THEN <<[Name |-> rr.Name,
                     Type |-> IF ToUpper(qType) \in DOMAIN HTTPDNSSupportType
                              THEN HTTPDNSSupportType[ToUpper(qType)] ELSE 0,
                     TTL |-> rr.TTL, Data |-> rr.Data]>> \o rest
             ELSE rest

formatHTTPDNSMsg(msg, answerType) ==
    IF answerType = HttpDnsAnswerTypeDoh
    THEN LET p == Pack(msg)
         IN  [err |-> p.err,
              bytes |-> IF p.err THEN NoBody ELSE [kind |-> "wire", buf |-> p.buf]]
    ELSE IF Len(msg.Question) = 0
    THEN [err |-> FALSE, bytes |-> [kind |-> "json", obj |-> ZeroDnsResponse]]
    ELSE LET qname == msg.Question[1].Name
             qType == TypeToString(msg.Question[1].Qtype)
             qt == [Name |-> qname, Type |-> msg.Question[1].Qtype]
             resp == [Status |-> msg.Hdr.Rcode,
                      TC |-> msg.Hdr.Truncated,
                      RD |-> msg.Hdr.RecursionDesired,
                      RA |-> msg.Hdr.RecursionAvailable,
                      AD |-> msg.Hdr.AuthenticatedData,
                      CD |-> msg.Hdr.CheckingDisabled,
                      Question |-> Array(<<qt>>),
                      Answer |-> Array(MatchingRRs(msg.Answer, qType))]
         IN  [err |-> FALSE, bytes |-> [kind |-> "json", obj |-> resp]]

\* respondHTTPS(d) with the writer w and the configured server name: the
\* writer it leaves behind and the error it returns.
respondHTTPS(d, w, srvName) ==
    IF d.Res = NoMsg
    THEN [w |-> HttpError(w, StatusText(StatusInternalServerError),
                          StatusInternalServerError),
          err |-> FALSE]
    ELSE LET enc == IF d.Proto = "http"
                    THEN formatHTTPDNSMsg(d.Res, d.AnswerType)
                    ELSE LET p == Pack(d.Res)
                         IN  [err |-> p.err,
                              bytes |-> IF p.err THEN NoBody
                                        ELSE [kind |-> "wire", buf |-> p.buf]]
         IN  IF enc.err
             THEN [w |-> HttpError(w, StatusText(StatusInternalServerError),
                                   StatusInternalServerError),
                   err |-> TRUE]
             ELSE LET w1 == IF srvName # ""
                            THEN [w EXCEPT !.hdr.Server = srvName] ELSE w
                      w2 == IF d.AnswerType = HttpDnsAnswerTypeDoh
                            THEN [w1 EXCEPT !.hdr.ContentType = "application/dns-message"]
                            ELSE [w1 EXCEPT !.hdr.ContentType = "application/json"]
                  IN  [w |-> Write(w2, enc.bytes), err |-> FALSE]

\* ------------------------------------------------------- bounded inputs
RECURSIVE SeqsUpTo(_, _)
SeqsUpTo(S, n) ==
    IF n = 0 THEN {<<>>}
    ELSE LET shorter == SeqsUpTo(S, n - 1)
         IN  shorter \cup {Append(q, c) : q \in shorter, c \in S}

Names == SeqsUpTo(NameChars, MaxNameLen)

Types == {"", "A", "a", "Mx", "bogus", "ANY"}

IpParams == {<<>>, <<"10.0.0.1">>, <<"10.0.0.1", ":", "4711">>,
             <<"8.8.8.8", ":", "53">>}

Ids == {7, 9}

\* Queries a DoH client packs itself: one question, and none.
ClientQueries ==
    {[t |-> "msg", Hdr |-> [MsgHdr EXCEPT !.Id = 7, !.RecursionDesired = TRUE],
      Question |-> qs, Answer |-> <<>>] :
        qs \in {<<>>, <<[Name |-> <<"a", ".">>, Qtype |-> 28, Qclass |-> ClassINET]>>}}

ClientWires == {Pack(q).buf : q \in ClientQueries}

NoDnsParam == [enc |-> "rawurl", buf |-> EmptyBuf]

DnsParams ==
    {NoDnsParam, [enc |-> "invalid", buf |-> EmptyBuf]}
    \cup {[enc |-> "rawurl", buf |-> b] : b \in ClientWires \cup {JunkBuf}}
    \cup {[enc |-> "padded", buf |-> b] : b \in ClientWires}

NoBodyReader == [err |-> FALSE, buf |-> EmptyBuf]

Bodies ==
    {[err |-> TRUE, buf |-> EmptyBuf]}
    \cup {[err |-> FALSE, buf |-> b] : b \in ClientWires \cup {EmptyBuf, JunkBuf}}

ContentTypes == {"application/dns-message", "application/json", "",
                 "Application/DNS-Message"}

Methods == {"GET", "POST", "PUT"}

Paths == {HttpDnsUrlPathPrefix, HttpDnsUrlPathPrefixBak, "/"}

Schemes == {"", "http", "https", "HTTPS"}

TrustedProxies == {"10.0.0.1"}

RemoteAddrs == {<<"10.0.0.1", ":", "4711">>, <<"192.0.2.7", ":", "4711">>}

NoHdrs ==
    [CFConnectingIP |-> <<>>, TrueClientIP |-> <<>>, XRealIP |-> <<>>,
     XForwardedFor |-> <<>>]

Hdrs ==
    [CFConnectingIP : {<<>>, <<"9.9.9.9">>, <<"x">>},
     TrueClientIP : {<<>>, <<" ", "8.8.4.4">>},
     XRealIP : {<<>>, <<"1.1.1.1">>},
     XForwardedFor : {<<>>, <<"4.4.4.4", ",", " ", "5.5.5.5">>,
                      <<",", "4.4.4.4">>, <<"x", ",", "4.4.4.4">>}]

NoAuth == [scheme |-> "", user |-> "", pass |-> ""]

AuthHeaders ==
    {NoAuth, [scheme |-> "Bearer", user |-> "admin", pass |-> "secret"]}
    \cup [scheme : {"Basic"}, user : {"admin", "Admin"}, pass : {"secret", "Secret", ""}]

Userinfos == {NoUserinfo, UserPassword("admin", "secret"), UserPassword("", "")}

ServerNames == {"", "dnsproxy"}

NoArgs == [name |-> <<>>, type |-> "", ip |-> <<>>, dns |-> NoDnsParam]

\* A binary DoH GET from an untrusted peer with no proxy or auth headers.
BaseRequest ==
    [method |-> "GET", path |-> "/", scheme |-> "",
     args |-> [NoArgs EXCEPT
                 !.dns = [enc |-> "rawurl",
                          buf |-> Pack(CHOOSE q \in ClientQueries : q.Question # <<>>).buf]],
     contentType |-> "", body |-> NoBodyReader,
     RemoteAddr |-> <<"192.0.2.7", ":", "4711">>, hdr |-> NoHdrs, auth |-> NoAuth]

\* The three well-formed shapes: JSON API, binary GET, binary POST.
JSONRequest ==
    [BaseRequest EXCEPT !.path = HttpDnsUrlPathPrefix,
                        !.args = [NoArgs EXCEPT !.name = <<"a">>]]

PostRequest ==
    [BaseRequest EXCEPT !.method = "POST", !.args = NoArgs,
                        !.contentType = "application/dns-message",
                        !.body = [err |-> FALSE, buf |-> BaseRequest.args.dns.buf]]

\* The requests explored: each family varies the inputs one component reads,
\* over every combination, around the well-formed shapes.
JSONArgRequests ==
    {[JSONRequest EXCEPT !.path = p, !.args.name = n, !.args.type = ty] :
        p \in Paths, n \in Names, ty \in Types}

DohGetRequests ==
    {[BaseRequest EXCEPT !.path = p, !.args.dns = dp, !.scheme = sc] :
        p \in Paths, dp \in DnsParams, sc \in Schemes}

BodyRequests ==
    {[PostRequest EXCEPT !.method = m, !.path = p, !.contentType = ct, !.body = b] :
        m \in Methods \ {"GET"}, p \in Paths, ct \in ContentTypes, b \in Bodies}

IdentityRequests ==
    {[q EXCEPT !.RemoteAddr = ra, !.hdr = h] :
        q \in {[JSONRequest EXCEPT !.args.ip = ip] : ip \in IpParams}
              \cup {BaseRequest, PostRequest},
        ra \in RemoteAddrs, h \in Hdrs}

AuthRequests ==
    {[q EXCEPT !.auth = a, !.RemoteAddr = ra, !.hdr.CFConnectingIP = cf] :
        q \in {JSONRequest, BaseRequest}, a \in AuthHeaders, ra \in RemoteAddrs,
        cf \in {<<>>, <<"9.9.9.9">>}}

SchemeRequests ==
    {[q EXCEPT !.scheme = sc] :
        q \in {[JSONRequest EXCEPT !.args.type = ty] : ty \in {"", "Mx"}}
              \cup {PostRequest},
        sc \in Schemes}

Requests ==
    JSONArgRequests \cup DohGetRequests \cup BodyRequests \cup IdentityRequests
    \cup AuthRequests \cup SchemeRequests

\* What the resolution engine may leave in d.Res for a query: nothing, or an
\* answer that echoes the question or drops it, with up to MaxAnswers records
\* of the queried type or of type CNAME, and an rcode that packs (0) or needs
\* an OPT record to pack (16).
AnswerRRs(req) ==
    LET qtypes == {req.Question[i].Qtype : i \in 1..Len(req.Question)} \cup {5}
    IN  SeqsUpTo({[Name |-> <<"a", ".">>, Rrtype |-> ty, TTL |-> 60, Data |-> "rdata"] :
                    ty \in qtypes}, MaxAnswers)

Answers(req) ==
    {NoMsg} \cup
    {[t |-> "msg",
      Hdr |-> [req.Hdr EXCEPT !.RecursionAvailable = TRUE, !.Rcode = rc],
      Question |-> qs, Answer |-> an] :
        rc \in {0, 16}, qs \in {<<>>, req.Question}, an \in AnswerRRs(req)}

\* ------------------------------------------------------------------ state
VARIABLES
    Config,     \* p.Config: Userinfo and HTTPSServerName, fixed at construction
    pc,         \* position of the handler of the request in flight
    r,          \* the *http.Request being served
    decoded,    \* what newDoHOrHttpReq returned, and what it did to r.Body
    raddr,      \* raddr of ServeHTTP
    prx,        \* prx of ServeHTTP
    d,          \* the DNSContext
    w,          \* the http.ResponseWriter
    steps,      \* the calls ServeHTTP has made for this request, in order
    authLog,    \* the "basic auth failed" records written for this request
    listenConf, \* p.HTTPSListenAddr, p.HTTPListenAddr and p.HTTP3
    listeners,  \* p.httpsListen, p.httpListen and p.h3Listen
    net,        \* the host's bound sockets and the binds asked of it, in order
    listenPc,   \* position of createHTTPSListeners: its loop, index and tcpAddr
    created,    \* whether createHTTPSListeners has returned, and its error
    dnsProxy,   \* s.dnsProxy of the DNSProxyService
    proxies,    \* every proxy proxy.New has returned, with how its Start ended
    shutdowns,  \* the receiver of each Shutdown call Stop has made, in order
    returned    \* the error the last Start or Stop returned, "" for nil

httpVars == <<Config, pc, r, decoded, raddr, prx, d, w, steps, authLog>>

listenVars == <<listenConf, listeners, net, listenPc, created>>

serviceVars == <<dnsProxy, proxies, shutdowns, returned>>

vars == <<httpVars, listenVars, serviceVars>>

NoRequest == [BaseRequest EXCEPT !.method = ""]

NotDecoded == DecodeResult(NoMsg, 0, HttpDnsAnswerTypeDoh, <<>>, FALSE, FALSE)

NoContext ==
    [Proto |-> "", Req |-> NoMsg, Addr |-> ZeroAddrPort, PreAddr |-> ZeroAddrPort,
     AnswerType |-> HttpDnsAnswerTypeDoh, XForwardedFor |-> <<>>, Res |-> NoMsg]

Idle ==
    /\ pc = "idle"
    /\ r = NoRequest
    /\ decoded = NotDecoded
    /\ raddr = ZeroAddrPort
    /\ prx = ZeroAddrPort
    /\ d = NoContext
    /\ w = NewResponseWriter
    /\ steps = <<>>
    /\ authLog = <<>>

\* ------------------------------------------------- listeners: vocabulary
\* A *net.TCPAddr or *net.UDPAddr; port 0 asks the host for a free port.
ListenIPs == {"127.0.0.1", "0.0.0.0"}

ListenPorts == {0, 443}

EphemeralPorts == {49152, 49153}

ListenAddrs == [IP : ListenIPs, Port : ListenPorts]

NoAddr == [IP |-> "", Port |-> 0]

NoError == [failed |-> FALSE, text |-> "", addr |-> NoAddr]

\* fmt.Errorf("<text> %s: %w", addr, err): the message and the address in it.
Errorf(text, addr) == [failed |-> TRUE, text |-> text, addr |-> addr]

\* A proxy on which createHTTPSListeners has not run.
NoListeners ==
    [httpsServer |-> FALSE, h3Server |-> FALSE,
     httpsListen |-> <<>>, httpListen |-> <<>>, h3Listen |-> <<>>]

NotCreated == [returned |-> FALSE, err |-> NoError]

NoListenConf == [HTTPSListenAddr |-> <<>>, HTTPListenAddr |-> <<>>, HTTP3 |-> FALSE]

QuietNet == [tcp |-> {}, udp |-> {}, calls |-> <<>>]

\* createHTTPSListeners has not been entered.
NotCalled == [loop |-> "", i |-> 0, tcpAddr |-> NoAddr]

ListenersIdle ==
    /\ listeners = NoListeners
    /\ listenPc = NotCalled
    /\ created = NotCreated

\* --------------------------------------------------- service: vocabulary
\* The nil *proxy.Proxy; a proxy is otherwise its index in proxies.
Nil == 0

\* NewDNSProxyService leaves dnsProxy unset.
ServiceIdle ==
    /\ dnsProxy = Nil
    /\ proxies = <<>>
    /\ shutdowns = <<>>
    /\ returned = ""

Init ==
    /\ Config \in [Userinfo : Userinfos, HTTPSServerName : ServerNames]
    /\ Idle
    /\ listenConf = NoListenConf
    /\ net = QuietNet
    /\ ListenersIdle
    /\ ServiceIdle

\* The HTTP server hands a request to ServeHTTP.
Accept ==
    /\ UNCHANGED <<listenVars, serviceVars>>
    /\ pc = "idle"
    /\ \E q \in Requests : r' = q
    /\ pc' = "decode"
    /\ UNCHANGED <<Config, decoded, raddr, prx, d, w, steps, authLog>>

\* ServeHTTP lines 504-509: decode, and answer the status if there is no query.
Decode ==
    /\ UNCHANGED <<listenVars, serviceVars>>
    /\ pc = "decode"
    /\ \E id \in Ids :
         LET res == newDoHOrHttpReq(r, id)
         IN  /\ decoded' = res
             /\ IF res.req = NoMsg
                THEN /\ w' = HttpError(w, StatusText(res.statusCode), res.statusCode)
                     /\ pc' = "done"
                ELSE /\ w' = w
                     /\ pc' = "identify"
    /\ steps' = Append(steps, "newDoHOrHttpReq")
    /\ UNCHANGED <<Config, r, raddr, prx, d, authLog>>

\* ServeHTTP lines 511-514.
Identify ==
    /\ UNCHANGED <<listenVars, serviceVars>>
    /\ pc = "identify"
    /\ LET res == remoteAddrWithRemoteHost(r, decoded.remoteHostStr)
       IN  /\ raddr' = res.addr
           /\ prx' = res.prx
    /\ pc' = "auth"
    /\ steps' = Append(steps, "remoteAddrWithRemoteHost")
    /\ UNCHANGED <<Config, r, decoded, d, w, authLog>>

\* ServeHTTP lines 516-518 with checkBasicAuth.
CheckBasicAuth ==
    /\ UNCHANGED <<listenVars, serviceVars>>
    /\ pc = "auth"
    /\ steps' = Append(steps, "checkBasicAuth")
    /\ LET ui == Config.Userinfo
           ba == BasicAuth(r)
       IN  IF ~ui.set \/ matchesUserinfo(ui, ba.user, ba.pass)
           THEN /\ pc' = "context"
                /\ UNCHANGED <<w, authLog>>
           ELSE /\ authLog' = Append(authLog, [user |-> ba.user, raddr |-> raddr])
                /\ w' = HttpError([w EXCEPT !.hdr.WWWAuthenticate =
                                       "Basic realm=\"DNS\", charset=\"UTF-8\""],
                                  "Authorization required", StatusUnauthorized)
                /\ pc' = "done"
    /\ UNCHANGED <<Config, r, decoded, raddr, prx, d>>

\* ServeHTTP lines 520-546: the trust decision and the DNSContext.
NewContext ==
    /\ UNCHANGED <<listenVars, serviceVars>>
    /\ pc = "context"
    /\ LET addr == IF IsValid(prx) /\ prx.addr \notin TrustedProxies
                   THEN prx ELSE raddr
           proto == IF ToLower(r.scheme) = "https" THEN "https" ELSE "http"
       IN  /\ raddr' = addr
           /\ d' = [Proto |-> proto, Req |-> decoded.req, Addr |-> addr,
                    PreAddr |-> IF IsValid(prx) THEN prx ELSE addr,
                    AnswerType |-> decoded.answerType,
                    XForwardedFor |-> r.hdr.XForwardedFor, Res |-> NoMsg]
    /\ pc' = "resolve"
    /\ steps' = Append(steps, "newDNSContext")
    /\ UNCHANGED <<Config, r, decoded, prx, w, authLog>>

\* ServeHTTP line 548: the resolution engine fills d.Res and answers.
HandleDNSRequest ==
    /\ UNCHANGED <<listenVars, serviceVars>>
    /\ pc = "resolve"
    /\ \E res \in Answers(d.Req) : d' = [d EXCEPT !.Res = res]
    /\ pc' = "respond"
    /\ steps' = Append(steps, "handleDNSRequest")
    /\ UNCHANGED <<Config, r, decoded, raddr, prx, w, authLog>>

Respond ==
    /\ UNCHANGED <<listenVars, serviceVars>>
    /\ pc = "respond"
    /\ w' = respondHTTPS(d, w, Config.HTTPSServerName).w
    /\ pc' = "done"
    /\ steps' = Append(steps, "respondHTTPS")
    /\ UNCHANGED <<Config, r, decoded, raddr, prx, d, authLog>>

\* ServeHTTP has returned; the context is discarded.
Return ==
    /\ UNCHANGED <<listenVars, serviceVars>>
    /\ pc = "done"
    /\ pc' = "idle"
    /\ r' = NoRequest
    /\ decoded' = NotDecoded
    /\ raddr' = ZeroAddrPort
    /\ prx' = ZeroAddrPort
    /\ d' = NoContext
    /\ w' = NewResponseWriter
    /\ steps' = <<>>
    /\ authLog' = <<>>
    /\ UNCHANGED Config

Next ==
    \/ Accept
    \/ Decode
    \/ Identify
    \/ CheckBasicAuth
    \/ NewContext
    \/ HandleDNSRequest
    \/ Respond
    \/ Return

Spec == Init /\ [][Next]_vars

\* ============================================================== listeners
MaxListenAddrs == 2

ListenConfs ==
    [HTTPSListenAddr : SeqsUpTo(ListenAddrs, MaxListenAddrs),
     HTTPListenAddr : SeqsUpTo(ListenAddrs, MaxListenAddrs),
     HTTP3 : BOOLEAN]

\* Sockets other processes may hold when the proxy starts.
BusyTCP == {[IP |-> "127.0.0.1", Port |-> 443], [IP |-> "0.0.0.0", Port |-> 49152]}

BusyUDP == {[IP |-> "0.0.0.0", Port |-> 443]}

\* Two sockets of one network cannot both be bound.
Overlaps(a, b) ==
    /\ a.Port = b.Port
    /\ (a.IP = b.IP \/ a.IP = "0.0.0.0" \/ b.IP = "0.0.0.0")

Min(S) == CHOOSE x \in S : \A y \in S : x <= y

\* The host's bind: a fixed port must be free; port 0 gets the lowest free
\* ephemeral port.  laddr is the address actually bound.
Bind(bound, addr) ==
    LET free == {q \in EphemeralPorts :
                    \A b \in bound : ~Overlaps(b, [IP |-> addr.IP, Port |-> q])}
        err == IF addr.Port = 0 THEN free = {}
               ELSE \E b \in bound : Overlaps(b, addr)
    IN  [err |-> err,
         laddr |-> IF err THEN NoAddr
                   ELSE IF addr.Port = 0 THEN [IP |-> addr.IP, Port |-> Min(free)]
                   ELSE addr]

\* net.ListenTCP on the state st = [listeners, net].
ListenTCP(st, addr) ==
    LET b == Bind(st.net.tcp, addr)
    IN  [st |-> [st EXCEPT
                   !.net.tcp = IF b.err THEN @ ELSE @ \cup {b.laddr},
                   !.net.calls = Append(@, [network |-> "tcp", addr |-> addr,
                                            err |-> b.err, laddr |-> b.laddr])],
         err |-> b.err, laddr |-> b.laddr]

\* quic.ListenAddrEarly.
ListenAddrEarly(st, addr) ==
    LET b == Bind(st.net.udp, addr)
    IN  [st |-> [st EXCEPT
                   !.net.udp = IF b.err THEN @ ELSE @ \cup {b.laddr},
                   !.net.calls = Append(@, [network |-> "udp", addr |-> addr,
                                            err |-> b.err, laddr |-> b.laddr])],
         err |-> b.err, laddr |-> b.laddr]

listenHTTP(st, addr, isTLS) ==
    LET tcpListen == ListenTCP(st, addr)
    IN  IF tcpListen.err
        THEN [st |-> tcpListen.st, laddr |-> NoAddr, err |-> TRUE]
        ELSE IF ~isTLS
        THEN [st |-> [tcpListen.st EXCEPT !.listeners.httpListen =
                        Append(@, [kind |-> "tcp", addr |-> tcpListen.laddr,
                                   NextProtos |-> <<>>])],
              laddr |-> tcpListen.laddr, err |-> FALSE]
        ELSE [st |-> [tcpListen.st EXCEPT !.listeners.httpsListen =
                        Append(@, [kind |-> "tls", addr |-> tcpListen.laddr,
                                   NextProtos |-> <<"h2", "http/1.1">>])],
              laddr |-> tcpListen.laddr, err |-> FALSE]

\* listenH3 asking the host for any free port instead of the given one.
listenH3_AnyPort(st, addr) ==
    LET quicListen == ListenAddrEarly(st, [addr EXCEPT !.Port = 0])
    IN  IF quicListen.err
        THEN [st |-> quicListen.st, err |-> TRUE]
        ELSE [st |-> [quicListen.st EXCEPT !.listeners.h3Listen =
                        Append(@, [kind |-> "quic", addr |-> quicListen.laddr,
                                   NextProtos |-> <<"h3">>])],
              err |-> FALSE]

listenH3(st, addr) ==
    LET quicListen == ListenAddrEarly(st, addr)
    IN  IF quicListen.err
        THEN [st |-> quicListen.st, err |-> TRUE]
        ELSE [st |-> [quicListen.st EXCEPT !.listeners.h3Listen =
                        Append(@, [kind |-> "quic", addr |-> quicListen.laddr,
                                   NextProtos |-> <<"h3">>])],
              err |-> FALSE]

\* Where createHTTPSListeners goes after the i-th address of a loop: to the
\* next address of that loop, to the loop over p.HTTPListenAddr, or out.
After(loop, i) ==
    IF loop = "https" /\ i < Len(listenConf.HTTPSListenAddr)
    THEN [loop |-> "https", i |-> i + 1, tcpAddr |-> NoAddr]
    ELSE IF loop = "https" /\ listenConf.HTTPListenAddr # <<>>
    THEN [loop |-> "http", i |-> 1, tcpAddr |-> NoAddr]
    ELSE IF loop = "http" /\ i < Len(listenConf.HTTPListenAddr)
    THEN [loop |-> "http", i |-> i + 1, tcpAddr |-> NoAddr]
    ELSE [loop |-> "return", i |-> 0, tcpAddr |-> NoAddr]

\* A proxy with its listen addresses configured, on a host where other
\* processes may hold some sockets.
ListenInit ==
    /\ Config = [Userinfo |-> NoUserinfo, HTTPSServerName |-> ""]
    /\ Idle
    /\ listenConf \in ListenConfs
    /\ net \in [tcp : SUBSET BusyTCP, udp : SUBSET BusyUDP, calls : {<<>>}]
    /\ ListenersIdle
    /\ ServiceIdle

\* createHTTPSListeners lines 339-350: the servers, before any bind.
CreateServers ==
    /\ listenPc = NotCalled
    /\ ~created.returned
    /\ listeners' = [listeners EXCEPT !.httpsServer = TRUE,
                                      !.h3Server = listenConf.HTTP3]
    /\ LET next == After("https", 0)
       IN  /\ listenPc' = next
           /\ created' = [returned |-> next.loop = "return", err |-> NoError]
    /\ UNCHANGED <<listenConf, net, httpVars, serviceVars>>

\* createHTTPSListeners lines 352-358: the TLS listener of one address.
ListenHTTPS ==
    /\ listenPc.loop = "https"
    /\ LET addr == listenConf.HTTPSListenAddr[listenPc.i]
           res == listenHTTP([listeners |-> listeners, net |-> net], addr, TRUE)
           next == IF listenConf.HTTP3
                   THEN [loop |-> "h3", i |-> listenPc.i, tcpAddr |-> res.laddr]
                   ELSE After("https", listenPc.i)
       IN  /\ listeners' = res.st.listeners
           /\ net' = res.st.net
           /\ IF res.err
              THEN /\ listenPc' = After("return", 0)
                   /\ created' = [returned |-> TRUE,
                                  err |-> Errorf("failed to start HTTPS server on", addr)]
              ELSE /\ listenPc' = next
                   /\ created' = [returned |-> next.loop = "return", err |-> NoError]
    /\ UNCHANGED <<listenConf, httpVars, serviceVars>>

\* createHTTPSListeners lines 360-368: the QUIC listener of that address.
ListenH3 ==
    /\ listenPc.loop = "h3"
    /\ LET udpAddr == [IP |-> listenPc.tcpAddr.IP, Port |-> listenPc.tcpAddr.Port]
           res == listenH3([listeners |-> listeners, net |-> net], udpAddr)
           next == After("https", listenPc.i)
       IN  /\ listeners' = res.st.listeners
           /\ net' = res.st.net
           /\ IF res.err
              THEN /\ listenPc' = After("return", 0)
                   /\ created' = [returned |-> TRUE,
                                  err |-> Errorf("failed to start HTTP/3 server on", udpAddr)]
              ELSE /\ listenPc' = next
                   /\ created' = [returned |-> next.loop = "return", err |-> NoError]
    /\ UNCHANGED <<listenConf, httpVars, serviceVars>>

\* createHTTPSListeners lines 371-379: the plain listener of one address.
ListenHTTP ==
    /\ listenPc.loop = "http"
    /\ LET addr == listenConf.HTTPListenAddr[listenPc.i]
           res == listenHTTP([listeners |-> listeners, net |-> net], addr, FALSE)
           next == After("http", listenPc.i)
       IN  /\ listeners' = res.st.listeners
           /\ net' = res.st.net
           /\ IF res.err
              THEN /\ listenPc' = After("return", 0)
                   /\ created' = [returned |-> TRUE,
                                  err |-> Errorf("failed to start HTTP server on", addr)]
              ELSE /\ listenPc' = next
                   /\ created' = [returned |-> next.loop = "return", err |-> NoError]
    /\ UNCHANGED <<listenConf, httpVars, serviceVars>>

ListenNext ==
    \/ CreateServers
    \/ ListenHTTPS
    \/ ListenH3
    \/ ListenHTTP

ListenSpec == ListenInit /\ [][ListenNext]_vars

\* ================================================================ service
MaxProxies == 3

MaxShutdowns == 3

\* DNSProxyService.Start.  The configuration, proxy.New and the proxy's Start
\* each fail or not; the proxy is stored in s.dnsProxy before it is started.
Start ==
    /\ \E confErr \in BOOLEAN, newErr \in BOOLEAN, startErr \in BOOLEAN :
         IF confErr
         THEN /\ returned' = "configuring proxy"
              /\ UNCHANGED <<dnsProxy, proxies>>
         ELSE IF newErr
         THEN /\ returned' = "creating proxy"
              /\ UNCHANGED <<dnsProxy, proxies>>
         ELSE /\ Len(proxies) < MaxProxies
              /\ proxies' = Append(proxies, [QueryLogChan |-> TRUE,
                                             started |-> ~startErr])
              /\ dnsProxy' = Len(proxies) + 1
              /\ returned' = IF startErr THEN "starting dnsproxy" ELSE ""
    /\ UNCHANGED <<shutdowns, httpVars, listenVars>>

\* DNSProxyService.Stop calls Shutdown on s.dnsProxy, whatever it holds, and
\* returns its error.
Stop ==
    /\ Len(shutdowns) < MaxShutdowns
    /\ shutdowns' = Append(shutdowns, dnsProxy)
    /\ \E err \in BOOLEAN : returned' = IF err THEN "stopping dnsproxy" ELSE ""
    /\ UNCHANGED <<dnsProxy, proxies, httpVars, listenVars>>

ServiceInit ==
    /\ Config = [Userinfo |-> NoUserinfo, HTTPSServerName |-> ""]
    /\ Idle
    /\ listenConf = NoListenConf
    /\ net = QuietNet
    /\ ListenersIdle
    /\ ServiceIdle

ServiceNext ==
    \/ Start
    \/ Stop

ServiceSpec == ServiceInit /\ [][ServiceNext]_vars

\* ================================================================ claims
\* Vocabulary of the claims, stated apart from the code's own helpers.
Called(step) == \E i \in 1..Len(steps) : steps[i] = step

DecodeReturned == Called("newDoHOrHttpReq")

ContextBuilt == Called("newDNSContext")

Peer == AddrPortFrom(r.RemoteAddr[1], PortOf(r.RemoteAddr[3]))

PeerTrusted == r.RemoteAddr[1] \in TrustedProxies

\* The part of an X-Forwarded-For value before its first comma.
FirstToken(s) ==
    IF \E i \in 1..Len(s) : s[i] = ","
    THEN SubSeq(s, 1, (CHOOSE i \in 1..Len(s) :
                          s[i] = "," /\ \A j \in 1..(i - 1) : s[j] # ",") - 1)
    ELSE s

\* The four real-client headers in their priority order.
HeaderCandidates ==
    <<r.hdr.CFConnectingIP, r.hdr.TrueClientIP, r.hdr.XRealIP,
      FirstToken(r.hdr.XForwardedFor)>>

IsAddress(s) ==
    LET t == SelectSeq(s, LAMBDA c : c # " ")
    IN  Len(t) = 1 /\ t[1] \in IPLiterals /\ \A i \in 1..Len(s) : s[i] \in {" ", t[1]}

AddressOf(s) == SelectSeq(s, LAMBDA c : c # " ")[1]

SomeHeaderParses == \E i \in 1..4 : IsAddress(HeaderCandidates[i])

FirstHeaderAddress ==
    AddressOf(HeaderCandidates[CHOOSE i \in 1..4 :
        /\ IsAddress(HeaderCandidates[i])
        /\ \A j \in 1..(i - 1) : ~IsAddress(HeaderCandidates[j])])

\* Every address literal that occurs in one of the four headers.
HeaderAddresses ==
    {a \in IPLiterals :
        \E h \in {r.hdr.CFConnectingIP, r.hdr.TrueClientIP, r.hdr.XRealIP,
                  r.hdr.XForwardedFor} : \E i \in 1..Len(h) : h[i] = a}

\* C1: when the connection peer is not a trusted proxy, the effective client
\* address handed to resolution is never an address taken from
\* CF-Connecting-IP, True-Client-IP, X-Real-IP or X-Forwarded-For, for binary
\* and JSON requests and whatever the JSON API's ip parameter says.  (The
\* claim also says the address equals the peer's; that implies this.)
C1_UntrustedPeerHeadersDiscarded ==
    (ContextBuilt /\ ~PeerTrusted) => d.Addr.addr \notin HeaderAddresses

\* C2: when the connection peer is a trusted proxy and one of the four
\* headers parses as an address, the effective client address is the first
\* such header's, in priority order, and the proxy address is the peer's.
C2_TrustedPeerFirstHeaderWins ==
    (ContextBuilt /\ PeerTrusted /\ SomeHeaderParses) =>
        /\ d.Addr = AddrPortFrom(FirstHeaderAddress, 0)
        /\ d.PreAddr = Peer

AuthChecked == Called("checkBasicAuth")

Rejected401 ==
    /\ pc = "done"
    /\ w.status = StatusUnauthorized
    /\ w.hdr.WWWAuthenticate = "Basic realm=\"DNS\", charset=\"UTF-8\""
    /\ ~Called("handleDNSRequest")

Proceeds == pc \in {"context", "resolve", "respond"} \/ Called("handleDNSRequest")

\* The request presents no Authorization header, or a Basic pair that
\* differs from the configured one.
PresentsWrongCredential ==
    \/ r.auth = NoAuth
    \/ /\ r.auth.scheme = "Basic"
       /\ (r.auth.user # Config.Userinfo.user \/ r.auth.pass # Config.Userinfo.pass)

PresentsRightCredential ==
    /\ r.auth.scheme = "Basic"
    /\ r.auth.user = Config.Userinfo.user
    /\ r.auth.pass = Config.Userinfo.pass

IsGet == r.method = "GET"

OnJSONPath == r.path \in {"/resolve", "/dns-query"}

\* C4: a GET on any path, /resolve and /dns-query included, whose dns
\* parameter is the unpadded base64url encoding of a packed query decodes to
\* status 200, the binary kind and the query that was packed.
C4_GetDnsParamIsBinaryOnAnyPath ==
    (/\ DecodeReturned
     /\ IsGet
     /\ r.args.dns.enc = "rawurl"
     /\ r.args.dns.buf \in ClientWires) =>
        /\ decoded.statusCode = 200
        /\ decoded.answerType = HttpDnsAnswerTypeDoh
        /\ decoded.req \in ClientQueries
        /\ Pack(decoded.req).buf = r.args.dns.buf

\* The type table of the JSON API, on the type strings the model sends.
TableType(ty) ==
    CASE ty \in {"", "A", "a"} -> 1
      [] ty = "Mx" -> 15
      [] OTHER -> 0

InTable(ty) == TableType(ty) # 0

IsJSONQuery(m, ty) ==
    /\ m # NoMsg
    /\ m.Hdr.RecursionDesired
    /\ Len(m.Question) = 1
    /\ m.Question[1].Qclass = 1
    /\ m.Question[1].Qtype = TableType(ty)

\* A printed name with the library's backslash escapes removed.
Unescape(s) == SelectSeq(s, LAMBDA c : c # "\\")

\* A name without any of its surrounding dots and whitespace.
RECURSIVE StripAll(_)
StripAll(s) ==
    IF s # <<>> /\ s[1] \in {" ", "."} THEN StripAll(Tail(s))
    ELSE IF s # <<>> /\ s[Len(s)] \in {" ", "."}
    THEN StripAll(SubSeq(s, 1, Len(s) - 1))
    ELSE s

\* C5 as claimed: every GET on a JSON path with a type of the table builds
\* the query, whatever the name.  Stated for the names whose surrounding
\* dots and whitespace the decoder removes completely.
C5_EveryNameBuildsQuery ==
    (/\ DecodeReturned /\ IsGet /\ OnJSONPath /\ InTable(r.args.type)
     /\ convertFQDN(r.args.name) = StripAll(r.args.name) \o <<".">>) =>
        /\ decoded.statusCode = 200
        /\ IsJSONQuery(decoded.req, r.args.type)

\* C5: a GET on /resolve or /dns-query selects the JSON kind; with a type of
\* the table (case-insensitive, empty meaning A) and a name that packs as a
\* domain name it builds a recursion-desired query with exactly one question
\* of class IN and the table's type; a type outside the table yields 400 and
\* no message, and so does a name that does not pack.
C5_JSONQueryType ==
    (DecodeReturned /\ IsGet /\ OnJSONPath) =>
        /\ decoded.answerType = HttpDnsAnswerTypeJsonAnswer
        /\ IF InTable(r.args.type) /\ PackDomainNameOK(convertFQDN(r.args.name))
           THEN /\ decoded.statusCode = 200
                /\ IsJSONQuery(decoded.req, r.args.type)
                /\ Unescape(decoded.req.Question[1].Name)
                      = StripAll(r.args.name) \o <<".">>
           ELSE /\ decoded.statusCode = 400
                /\ decoded.req = NoMsg

\* A lower-case type has been decoded into a query of its table type.
C5_Witness ==
    /\ DecodeReturned /\ IsGet /\ OnJSONPath
    /\ r.args.type = "Mx"
    /\ decoded.statusCode = 200
    /\ decoded.req.Question[1].Qtype = 15

\* C6: for every name parameter the question name of the synthesized query
\* is the name without its surrounding whitespace and dots, followed by
\* exactly one dot.
C6_NameCanonicalized ==
    (DecodeReturned /\ IsGet /\ OnJSONPath /\ InTable(r.args.type)) =>
        /\ decoded.req # NoMsg
        /\ Unescape(decoded.req.Question[1].Name) = StripAll(r.args.name) \o <<".">>

Responded == Called("respondHTTPS")

\* C7: the answer field of every JSON object the encoder produces for a
\* resolved answer is an array, never null.
C7_AnswerIsArray ==
    (Responded /\ d.Res # NoMsg /\ w.body.kind = "json") =>
        ~w.body.obj.Answer.null

\* C8: for every 200 response written for a present answer, under either
\* protocol tag, the binary kind has a wire-format body and Content-Type
\* application/dns-message and the JSON kind a JSON body and Content-Type
\* application/json.
C8_BodyMatchesContentType ==
    (Responded /\ d.Res # NoMsg /\ w.status = 200) =>
        /\ d.AnswerType = decoded.answerType
        /\ d.AnswerType = HttpDnsAnswerTypeDoh =>
              w.body.kind = "wire" /\ w.hdr.ContentType = "application/dns-message"
        /\ d.AnswerType = HttpDnsAnswerTypeJsonAnswer =>
              w.body.kind = "json" /\ w.hdr.ContentType = "application/json"

\* The handler wrote the status and returned after the decoder alone ran.
StoppedWith(code) ==
    /\ decoded.statusCode = code
    /\ decoded.req = NoMsg
    /\ pc = "done"
    /\ w.status = code
    /\ steps = <<"newDoHOrHttpReq">>

\* C9: on any path a method other than GET and POST yields 405, and a POST
\* whose Content-Type is not exactly application/dns-message yields 415
\* without its body being read; no message is produced, the handler writes
\* the status and returns, and neither authorization nor resolution runs.
C9_MethodGate ==
    DecodeReturned =>
        /\ r.method \notin {"GET", "POST"} => StoppedWith(405)
        /\ (r.method = "POST" /\ r.contentType # "application/dns-message") =>
              StoppedWith(415) /\ ~decoded.bodyRead

\* A POST with a well-formed body and the wrong content type got 415.
C9_Witness ==
    /\ r.method = "POST"
    /\ r.contentType = "application/json"
    /\ r.body.buf \in ClientWires
    /\ r.path = "/dns-query"
    /\ StoppedWith(415)

\* C10: whenever the decoder has started to read a POST body, the body is
\* closed by the time the decoder returns.
C10_BodyClosed ==
    (DecodeReturned /\ decoded.bodyRead) => decoded.bodyClosed

\* C11: with a server name configured, the Server header is set before the
\* answer is encoded, so every response written for a present answer carries
\* it: the 200 and also the 500 written when packing or marshaling fails.
C11_ServerHeaderOnEveryResponse ==
    (Responded /\ d.Res # NoMsg /\ Config.HTTPSServerName # "") =>
        w.hdr.Server = Config.HTTPSServerName

\* The ip parameter of the request is one valid IP address.
IpParamIsAddress == Len(r.args.ip) = 1 /\ r.args.ip[1] \in IPLiterals

\* C13: for a JSON API request whose ip parameter is a valid IP address and
\* with no parsable real-client header, the effective client address is the
\* ip address and no proxy address is reported.  (The claim's other half,
\* that an empty or unparsable ip leaves the peer address in place and does
\* not fail the request, is not what this formula is about.)
C13_IpParamReplacesPeer ==
    (/\ ContextBuilt
     /\ decoded.answerType = HttpDnsAnswerTypeJsonAnswer
     /\ IpParamIsAddress
     /\ ~SomeHeaderParses) =>
        /\ d.Addr.addr = r.args.ip[1]
        /\ ~IsValid(prx)

\* C14: whenever Basic Auth fails for a request that carries no ip override
\* and comes from a peer that is not a trusted proxy, the address in the
\* failure record is the peer's, never a header-supplied one, and the record
\* holds the presented username and no password field.
C14_FailureLogHasEffectiveAddress ==
    \A i \in 1..Len(authLog) :
        /\ DOMAIN authLog[i] = {"user", "raddr"}
        /\ authLog[i].user = BasicAuth(r).user
        /\ (~PeerTrusted /\ r.args.ip = <<>>) => authLog[i].raddr = Peer

\* The order C12 gives for the binds: the HTTPS addresses, each followed by
\* its QUIC bind when HTTP/3 is enabled, then the HTTP addresses.
NumHTTPS == Len(listenConf.HTTPSListenAddr)

BindsPerHTTPS == IF listenConf.HTTP3 THEN 2 ELSE 1

TotalBinds == NumHTTPS * BindsPerHTTPS + Len(listenConf.HTTPListenAddr)

IsQUICBind(k) ==
    /\ k <= NumHTTPS * BindsPerHTTPS
    /\ listenConf.HTTP3
    /\ k % 2 = 0

\* The network and the address of the k-th bind in that order.
BindNetwork(k) == IF IsQUICBind(k) THEN "udp" ELSE "tcp"

BindAddr(k) ==
    IF IsQUICBind(k) THEN net.calls[k - 1].laddr
    ELSE IF k <= NumHTTPS * BindsPerHTTPS
    THEN listenConf.HTTPSListenAddr[(k + BindsPerHTTPS - 1) \div BindsPerHTTPS]
    ELSE listenConf.HTTPListenAddr[k - NumHTTPS * BindsPerHTTPS]

\* The binds made so far are a prefix of the order, each address once.
BindsInOrder ==
    /\ Len(net.calls) <= TotalBinds
    /\ \A k \in 1..Len(net.calls) :
          /\ net.calls[k].network = BindNetwork(k)
          /\ net.calls[k].addr = BindAddr(k)

\* A listener bound at laddr serves the configured address addr.
Serves(laddr, addr) ==
    /\ laddr.IP = addr.IP
    /\ IF addr.Port = 0 THEN laddr.Port \in EphemeralPorts
       ELSE laddr.Port = addr.Port

\* C12: once createHTTPSListeners has returned, the binds it made follow the
\* order HTTPS addresses (each followed by its QUIC bind), then HTTP
\* addresses, no address twice and none after a failed one.  If every bind
\* succeeded there is exactly one TLS listener per HTTPS address, one plain
\* listener per HTTP address and, iff HTTP/3 is enabled, one QUIC listener
\* per HTTPS address on the IP and port its TLS listener actually bound
\* (none otherwise).  If a bind failed, the error names the address of that
\* bind.
C12_ListenerBootstrap ==
    created.returned =>
        /\ BindsInOrder
        /\ \A k \in 1..(Len(net.calls) - 1) : ~net.calls[k].err
        /\ IF \A k \in 1..Len(net.calls) : ~net.calls[k].err
           THEN /\ ~created.err.failed
                /\ Len(net.calls) = TotalBinds
                /\ Len(listeners.httpsListen) = NumHTTPS
                /\ \A i \in 1..NumHTTPS :
                      /\ listeners.httpsListen[i].kind = "tls"
                      /\ Serves(listeners.httpsListen[i].addr,
                                listenConf.HTTPSListenAddr[i])
                /\ Len(listeners.httpListen) = Len(listenConf.HTTPListenAddr)
                /\ \A i \in 1..Len(listenConf.HTTPListenAddr) :
                      /\ listeners.httpListen[i].kind = "tcp"
                      /\ Serves(listeners.httpListen[i].addr,
                                listenConf.HTTPListenAddr[i])
                /\ IF listenConf.HTTP3
                   THEN /\ Len(listeners.h3Listen) = NumHTTPS
                        /\ \A i \in 1..NumHTTPS :
                              /\ listeners.h3Listen[i].kind = "quic"
                              /\ listeners.h3Listen[i].addr =
                                    listeners.httpsListen[i].addr
                   ELSE listeners.h3Listen = <<>>
           ELSE /\ created.err.failed
                /\ created.err.addr = net.calls[Len(net.calls)].addr

\* Every bind succeeded with HTTP/3 enabled, for two HTTPS addresses that
\* both ask for port 0, the second getting the host's second ephemeral port
\* for its TLS and its QUIC listener, and one HTTP address.
C12_Witness ==
    /\ created.returned
    /\ ~created.err.failed
    /\ listenConf.HTTP3
    /\ NumHTTPS = 2
    /\ Len(listenConf.HTTPListenAddr) = 1
    /\ listenConf.HTTPSListenAddr[1].Port = 0
    /\ listenConf.HTTPSListenAddr[2].Port = 0
    /\ Len(listeners.h3Listen) = 2
    /\ listeners.h3Listen[2].addr.Port = 49153
    /\ Len(listeners.httpListen) = 1

\* C15: in every sequence of Start and Stop calls on a DNSProxyService,
\* whenever Stop calls Shutdown the proxy reference is non-nil and refers to
\* a proxy whose Start succeeded; in particular for a Stop before any Start
\* and for a Stop after a Start that returned an error.
C15_ShutdownOnStartedProxy ==
    \A i \in 1..Len(shutdowns) :
        /\ shutdowns[i] # Nil
        /\ proxies[shutdowns[i]].started

====
